---------------------------- MODULE Spec2Model ----------------------------
(***************************************************************************)
(* Raid performance dashboard (src/dashboard.py).                          *)
(*                                                                         *)
(* The script is executed top to bottom on every page run: it scans the    *)
(* report store, reads the selection widgets, loads the selected reports   *)
(* into all_players, builds the working table df (as-is in Single Report   *)
(* mode, grouped by player name otherwise) and renders the ranking views.  *)
(*                                                                         *)
(* A JSON value is a cell: Num(n), Str(s) or NaN (pandas' missing value).  *)
(* A JSON object (a player entry) is a function from its keys to cells.    *)
(* A data frame is [columns |-> set of labels, rows |-> sequence of        *)
(* functions from columns to cells].                                       *)
(***************************************************************************)
EXTENDS Integers, Sequences, FiniteSets, TLC

VARIABLES
    report_paths,      \* the scanned store: sequence of [name, file], scan order
    selection_mode,    \* st.radio value, "" before the widget is read
    selected_reports,  \* set of session names the run loads
    all_players,       \* list of loaded player dicts
    df,                \* working table (NoFrame before it is built)
    messages,          \* st.warning / st.error calls of this run, in order
    rendered,          \* views handed to st.dataframe / st.bar_chart, in order
    pc,                \* position of the script run
    path_idx,          \* next index of the load loop over report_paths
    view_idx           \* next call of ViewCalls

vars == <<report_paths, selection_mode, selected_reports, all_players, df,
          messages, rendered, pc, path_idx, view_idx>>

----------------------------------------------------------------------------
(* Bounds of the model *)

\* at most this many player entries in the reports of the store altogether
MaxEntries == 2
\* at most this many rows in a table given to the ranking views on their own
MaxRows == 4
\* the ranking views on their own are called with n in 1..MaxN
MaxN == 2

----------------------------------------------------------------------------
(* Cells and JSON values *)

NaN == [kind |-> "nan"]
Num(n) == [kind |-> "num", n |-> n]
Str(s) == [kind |-> "str", s |-> s]

IsNum(c) == c.kind = "num"

\* Lexical order of every string the model sorts (player and session names).
StrOrder == <<"A", "B", "Total", "r1", "r2">>

\* sorted(set(S)) for a set of strings
SortedStrings(S) == SelectSeq(StrOrder, LAMBDA s : s \in S)

RECURSIVE Join(_)
\* ', '.join(seq)
Join(seq) ==
    IF seq = <<>> THEN ""
    ELSE IF Len(seq) = 1 THEN seq[1]
    ELSE seq[1] \o ", " \o Join(Tail(seq))

Range(seq) == {seq[k] : k \in 1..Len(seq)}

RECURSIVE SumSeq(_)
SumSeq(seq) == IF seq = <<>> THEN 0 ELSE seq[1] + SumSeq(Tail(seq))

----------------------------------------------------------------------------
(* The inputs: report files *)

SessionNames == {"r1", "r2"}

\* a player who has every counter the views ask for, and a non-numeric field
Dealer == ("dps" :> Num(2)) @@ ("hps" :> Num(0)) @@ ("haste_potion" :> Num(1))
          @@ ("class" :> Str("Mage"))
\* a player whose record carries one counter only
Sparse == ("dps" :> Num(1))

PlayerEntries ==
    { ("name" :> Str(n)) @@ s : n \in {"A", "B"}, s \in {Dealer, Sparse} }
    \cup { ("name" :> Str("Total")) @@ Dealer }   \* the session summary row
    \cup { Sparse }                               \* an entry without a name

PlayerLists == UNION { [1..k -> PlayerEntries] : k \in 0..MaxEntries }

\* What a report.json can hold: unreadable, not JSON, JSON whose top level is
\* not an object, an object without "players", an object with a players list.
ReportFiles ==
    { [kind |-> k, hasPlayers |-> FALSE, players |-> <<>>]
        : k \in {"unreadable", "notjson", "notobject", "object"} }
    \cup { [kind |-> "object", hasPlayers |-> TRUE, players |-> ps]
        : ps \in PlayerLists }

\* reversed(seq)
Reverse(seq) == [k \in 1..Len(seq) |-> seq[Len(seq) + 1 - k]]

\* sorted(Path("reports").rglob("report.json"), reverse=True) over a store laid
\* out as reports/<session>/report.json: one report for each session directory
\* that exists, in descending order of the directory name.
ReportStores ==
    UNION { { [k \in 1..Len(names) |-> [name |-> names[k], file |-> files[k]]] :
                files \in { fs \in [1..Len(names) -> ReportFiles] :
                              SumSeq([k \in 1..Len(names) |-> Len(fs[k].players)])
                                 <= MaxEntries } } :
            names \in { Reverse(SortedStrings(dirs)) : dirs \in SUBSET SessionNames } }

clean_report_names(paths) == [k \in 1..Len(paths) |-> paths[k].name]

NoFrame == [columns |-> {}, rows |-> <<>>]
NoSelection == "None"

----------------------------------------------------------------------------
(* Report selection: lines 25-46 *)

Init ==
    /\ report_paths \in ReportStores
    /\ selection_mode = ""
    /\ selected_reports = {}
    /\ all_players = <<>>
    /\ df = NoFrame
    /\ messages = <<>>
    /\ rendered = <<>>
    /\ pc = "select"
    /\ path_idx = 1
    /\ view_idx = 1

\* st.selectbox over clean_report_names; None when there is no option
SelectSingle ==
    /\ pc = "select"
    /\ selection_mode' = "Single Report"
    /\ \E choice \in IF report_paths = <<>> THEN {NoSelection}
                     ELSE Range(clean_report_names(report_paths)) :
          selected_reports' = {choice}
    /\ pc' = "load"
    /\ UNCHANGED <<report_paths, all_players, df, messages, rendered, path_idx, view_idx>>

\* st.multiselect; an empty choice warns and stops the run
SelectMultiple ==
    /\ pc = "select"
    /\ selection_mode' = "Multiple Reports"
    /\ \E chosen \in SUBSET Range(clean_report_names(report_paths)) :
          /\ selected_reports' = chosen
          /\ IF chosen = {}
             THEN /\ messages' = Append(messages,
                        [level |-> "warning", text |-> "Please select at least one report.", path |-> 0])
                  /\ pc' = "stopped"
             ELSE /\ messages' = messages
                  /\ pc' = "load"
    /\ UNCHANGED <<report_paths, all_players, df, rendered, path_idx, view_idx>>

SelectAll ==
    /\ pc = "select"
    /\ selection_mode' = "All Reports"
    /\ selected_reports' = Range(clean_report_names(report_paths))
    /\ pc' = "load"
    /\ UNCHANGED <<report_paths, all_players, df, messages, rendered, path_idx, view_idx>>

----------------------------------------------------------------------------
(* The load loop: lines 49-61 *)

\* The mutant of KeepPlayer: the Total filter is left out.
KeepEveryPlayer(player) == "name" \in DOMAIN player

\* line 57: the Total filter
KeepPlayer(player) == player["name"] # Str("Total")

\* line 58: player["report_name"] = report_name
Tag(player, report_name) ==
    [k \in DOMAIN player \cup {"report_name"} |->
        IF k = "report_name" THEN Str(report_name) ELSE player[k]]

RECURSIVE LoadPlayers(_, _)
\* lines 56-59: the rows appended before the loop ends or player["name"]
\* raises KeyError; rows appended before the exception stay in all_players.
LoadPlayers(players, report_name) ==
    IF players = <<>> THEN [rows |-> <<>>, failed |-> FALSE]
    ELSE IF "name" \notin DOMAIN Head(players)
         THEN [rows |-> <<>>, failed |-> TRUE]
         ELSE LET rest == LoadPlayers(Tail(players), report_name)
              IN  IF KeepPlayer(Head(players))
                  THEN [rows |-> <<Tag(Head(players), report_name)>> \o rest.rows,
                        failed |-> rest.failed]
                  ELSE rest

\* lines 53-59: open, json.load, report.get("players", []), the player loop
LoadOutcome(file, report_name) ==
    IF file.kind # "object"
    THEN [rows |-> <<>>, failed |-> TRUE]
    ELSE LoadPlayers(IF file.hasPlayers THEN file.players ELSE <<>>, report_name)

\* line 51, false branch: the report is not selected
SkipReport ==
    /\ pc = "load"
    /\ path_idx <= Len(report_paths)
    /\ report_paths[path_idx].name \notin selected_reports
    /\ path_idx' = path_idx + 1
    /\ UNCHANGED <<report_paths, selection_mode, selected_reports, all_players,
                   df, messages, rendered, pc, view_idx>>

\* The mutant of LoadReport: the exception of a failing report leaves the loop.
LoadReportNoCatch ==
    /\ pc = "load"
    /\ path_idx <= Len(report_paths)
    /\ report_paths[path_idx].name \in selected_reports
    /\ LET out == LoadOutcome(report_paths[path_idx].file, report_paths[path_idx].name)
       IN  /\ all_players' = all_players \o out.rows
           /\ pc' = IF out.failed THEN "crashed" ELSE pc
    /\ path_idx' = path_idx + 1
    /\ UNCHANGED <<report_paths, selection_mode, selected_reports, df, messages,
                   rendered, view_idx>>

\* lines 52-61: load one selected report; any exception becomes a warning
LoadReport ==
    /\ pc = "load"
    /\ path_idx <= Len(report_paths)
    /\ report_paths[path_idx].name \in selected_reports
    /\ LET out == LoadOutcome(report_paths[path_idx].file, report_paths[path_idx].name)
       IN  /\ all_players' = all_players \o out.rows
           /\ messages' = IF out.failed
                          THEN Append(messages, [level |-> "warning",
                                                 text |-> "Could not load",
                                                 path |-> path_idx])
                          ELSE messages
    /\ path_idx' = path_idx + 1
    /\ UNCHANGED <<report_paths, selection_mode, selected_reports, df, rendered,
                   pc, view_idx>>

----------------------------------------------------------------------------
(* The working table: lines 63-93 *)

\* pd.DataFrame(list of dicts): the columns are the union of the keys, a key
\* a dict lacks is NaN in its row.
DataFrame(players) ==
    LET cols == UNION {DOMAIN players[k] : k \in 1..Len(players)}
    IN  [columns |-> cols,
         rows |-> [k \in 1..Len(players) |->
                     [c \in cols |-> IF c \in DOMAIN players[k]
                                     THEN players[k][c] ELSE NaN]]]

\* DataFrame.empty
Empty(frame) == frame.rows = <<>> \/ frame.columns = {}

\* line 79: select_dtypes(include=[np.number]): a column is numeric when all
\* its present values are numbers (NaN makes it float64, a string object).
NumericColumns(frame) ==
    {c \in frame.columns :
        \A k \in 1..Len(frame.rows) : frame.rows[k][c].kind \in {"num", "nan"}}

\* the rows of one groupby('name') group, in frame order
Group(frame, name) == SelectSeq(frame.rows, LAMBDA r : r["name"] = Str(name))

\* The mutant of GroupSum: the aggregation is the mean of the present values.
GroupMean(rows, c) ==
    LET present == SelectSeq(rows, LAMBDA r : IsNum(r[c]))
    IN  IF present = <<>> THEN NaN
        ELSE Num(SumSeq([k \in 1..Len(present) |-> present[k][c].n]) \div Len(present))

\* line 83: 'sum' skips NaN; the sum of no present value is 0
GroupSum(rows, c) ==
    LET present == SelectSeq(rows, LAMBDA r : IsNum(r[c]))
    IN  Num(SumSeq([k \in 1..Len(present) |-> present[k][c].n]))

\* line 84: ', '.join(sorted(set(x)))
GroupReportNames(rows) ==
    Str(Join(SortedStrings({rows[k]["report_name"].s : k \in 1..Len(rows)})))

\* line 90: GroupBy.first(): the first non-null value of the group, else NaN
GroupFirst(rows, c) ==
    LET present == SelectSeq(rows, LAMBDA r : r[c].kind # "nan")
    IN  IF present = <<>> THEN NaN ELSE present[1][c]

\* lines 79-93: group by name (keys sorted), sum the numeric columns, join the
\* report names, take the other columns from the first occurrence.
Aggregate(frame) ==
    LET numeric_columns == NumericColumns(frame)
        names == SortedStrings({frame.rows[k]["name"].s : k \in 1..Len(frame.rows)})
        non_numeric_cols == frame.columns \ (numeric_columns \cup {"name", "report_name"})
    IN  [columns |-> frame.columns,
         rows |-> [g \in 1..Len(names) |->
                     LET rows == Group(frame, names[g])
                     IN  [c \in frame.columns |->
                            IF c = "name" THEN Str(names[g])
                            ELSE IF c = "report_name" THEN GroupReportNames(rows)
                            ELSE IF c \in numeric_columns THEN GroupSum(rows, c)
                            ELSE GroupFirst(rows, c)]]]

\* The mutant of SingleBranch: the as-is branch is taken when one report is in scope.
SingleBranchByCount ==
    Cardinality({k \in 1..Len(report_paths) :
                    report_paths[k].name \in selected_reports}) = 1

\* line 66: which branch builds the working table
SingleBranch == selection_mode = "Single Report"

\* The mutant of Halts: only the Single Report branch has the guard.
HaltsSingleOnly(frame) == SingleBranch /\ Empty(frame)

\* lines 68 and 74: if df_all.empty
Halts(frame) == Empty(frame)

\* lines 63-93, after the last report of the loop
BuildTable ==
    /\ pc = "load"
    /\ path_idx > Len(report_paths)
    /\ LET df_all == DataFrame(all_players)
       IN  IF Halts(df_all)
           THEN /\ messages' = Append(messages,
                      [level |-> "error", text |-> "No valid report data found.", path |-> 0])
                /\ pc' = "stopped"
                /\ df' = df
           ELSE IF Empty(df_all)
           THEN \* line 82: groupby('name') on a frame without columns raises
                \* KeyError (not reached while the guard above halts the run)
                /\ pc' = "crashed"
                /\ UNCHANGED <<messages, df>>
           ELSE /\ df' = IF SingleBranch THEN df_all ELSE Aggregate(df_all)
                /\ pc' = "render"
                /\ messages' = messages
    /\ UNCHANGED <<report_paths, selection_mode, selected_reports, all_players,
                   rendered, path_idx, view_idx>>

----------------------------------------------------------------------------
(* The ranking views: lines 97-124 *)

\* .query(f"{column} > 0"): NaN > 0 is False
Positive(c) == IsNum(c) /\ c.n > 0

\* rows are in non-increasing order of column
Descending(rows, column) ==
    \A k \in 1..Len(rows) - 1 : rows[k][column].n >= rows[k + 1][column].n

\* .sort_values(by=column, ascending=False) with the default kind='quicksort',
\* which is not a stable sort: every descending arrangement of the rows is a
\* result the library may return; which one is decided by the numpy build.
SortValues(rows, column) ==
    { sorted \in { [k \in 1..Len(rows) |-> rows[p[k]]] : p \in Permutations(1..Len(rows)) } :
        Descending(sorted, column) }

\* .head(n)
Head_(rows, n) == SubSeq(rows, 1, IF n < Len(rows) THEN n ELSE Len(rows))

\* df[["name", column]].query(...).sort_values(...).head(n): the set of frames
\* the chain may return; df[["name", column]] needs column in df.columns.
Ranked(frame, column, n) ==
    LET picked == [k \in 1..Len(frame.rows) |->
                     [c \in {"name", column} |-> frame.rows[k][c]]]
        kept == SelectSeq(picked, LAMBDA r : Positive(r[column]))
    IN  { Head_(sorted, n) : sorted \in SortValues(kept, column) }

RECURSIVE Spaces(_)
\* ' ' * k
Spaces(k) == IF k <= 0 THEN "" ELSE " " \o Spaces(k - 1)

\* lines 106-107: rename(columns={column: column_display_name})
Rename(rows, column, display) ==
    [k \in 1..Len(rows) |->
        [c \in {"name", display} |-> IF c = "name" THEN rows[k]["name"] ELSE rows[k][column]]]

\* lines 121-122: the series indexed by ranked_name
RankedSeries(rows, column, n) ==
    [k \in 1..Len(rows) |->
        [ranked_name |-> Spaces(n - (k - 1)) \o rows[k]["name"].s,
         value |-> rows[k][column]]]

\* top_table(title, column, n, column_display_name): what st.dataframe may get
top_table(column, n, display) ==
    { [widget |-> "dataframe", column |-> column, n |-> n,
       rows |-> Rename(rows, column, display)] : rows \in Ranked(df, column, n) }

\* bar_chart(title, column, n): what st.bar_chart may get
bar_chart(column, n) ==
    { [widget |-> "bar_chart", column |-> column, n |-> n,
       rows |-> RankedSeries(rows, column, n)] : rows \in Ranked(df, column, n) }

\* lines 129, 131, 138: the calls of the page, in order. Lines 140-244 repeat
\* the top_table call of line 138 with other column keys.
ViewCalls ==
    << [widget |-> "bar_chart", column |-> "dps", n |-> 10],
       [widget |-> "bar_chart", column |-> "hps", n |-> 5],
       [widget |-> "dataframe", column |-> "haste_potion", n |-> 20] >>

\* the script ends after its last call
AfterView == IF view_idx = Len(ViewCalls) THEN "done" ELSE "render"

\* df[["name", column]] with a column the table lacks raises KeyError; nothing
\* catches it, the script run ends with the exception on the page.
MissingColumn(call) ==
    /\ call.column \notin df.columns
    /\ messages' = Append(messages, [level |-> "exception", text |-> "KeyError", path |-> 0])
    /\ pc' = "crashed"
    /\ UNCHANGED <<rendered, view_idx>>

TopTableView ==
    /\ pc = "render"
    /\ ViewCalls[view_idx].widget = "dataframe"
    /\ LET call == ViewCalls[view_idx]
       IN  \/ MissingColumn(call)
           \/ /\ call.column \in df.columns
              /\ \E out \in top_table(call.column, call.n, "used") :
                    rendered' = Append(rendered, out)
              /\ view_idx' = view_idx + 1
              /\ pc' = AfterView
              /\ messages' = messages
    /\ UNCHANGED <<report_paths, selection_mode, selected_reports, all_players, df, path_idx>>

BarChartView ==
    /\ pc = "render"
    /\ ViewCalls[view_idx].widget = "bar_chart"
    /\ LET call == ViewCalls[view_idx]
       IN  \/ MissingColumn(call)
           \/ /\ call.column \in df.columns
              /\ \E out \in bar_chart(call.column, call.n) :
                    rendered' = Append(rendered, out)
              /\ view_idx' = view_idx + 1
              /\ pc' = AfterView
              /\ messages' = messages
    /\ UNCHANGED <<report_paths, selection_mode, selected_reports, all_players, df, path_idx>>

\* Streamlit runs the script again, from the top, on the next interaction.
Rerun ==
    /\ pc \in {"done", "stopped", "crashed"}
    /\ selection_mode' = ""
    /\ selected_reports' = {}
    /\ all_players' = <<>>
    /\ df' = NoFrame
    /\ messages' = <<>>
    /\ rendered' = <<>>
    /\ pc' = "select"
    /\ path_idx' = 1
    /\ view_idx' = 1
    /\ UNCHANGED report_paths

Next ==
    \/ SelectSingle
    \/ SelectMultiple
    \/ SelectAll
    \/ SkipReport
    \/ LoadReport
    \/ BuildTable
    \/ TopTableView
    \/ BarChartView
    \/ Rerun

Spec == Init /\ [][Next]_vars

----------------------------------------------------------------------------
(* The ranking views on their own: top_table and bar_chart applied to any    *)
(* working table of one counter, with any n.                                 *)

RankNames == <<"X", "Y", "Z", "W", "V">>
RankValues == {Num(-1), Num(0), Num(1), Num(5), NaN}

\* tables of 1..MaxRows rows; row k is the player RankNames[k]
RankFrames ==
    { [columns |-> {"name", "dps"},
       rows |-> [k \in 1..Len(vals) |-> ("name" :> Str(RankNames[k])) @@ ("dps" :> vals[k])]]
      : vals \in UNION { [1..k -> RankValues] : k \in 1..MaxRows } }

RankInit ==
    /\ report_paths = <<>>
    /\ selection_mode = ""
    /\ selected_reports = {}
    /\ all_players = <<>>
    /\ df \in RankFrames
    /\ messages = <<>>
    /\ rendered = <<>>
    /\ pc = "render"
    /\ path_idx = 1
    /\ view_idx = 1

RankTopTable ==
    /\ pc = "render"
    /\ \E n \in 1..MaxN : \E out \in top_table("dps", n, "used") :
          rendered' = Append(rendered, out)
    /\ pc' = "done"
    /\ UNCHANGED <<report_paths, selection_mode, selected_reports, all_players, df,
                   messages, path_idx, view_idx>>

RankBarChart ==
    /\ pc = "render"
    /\ \E n \in 1..MaxN : \E out \in bar_chart("dps", n) :
          rendered' = Append(rendered, out)
    /\ pc' = "done"
    /\ UNCHANGED <<report_paths, selection_mode, selected_reports, all_players, df,
                   messages, path_idx, view_idx>>

RankNext == RankTopTable \/ RankBarChart

RankSpec == RankInit /\ [][RankNext]_vars

----------------------------------------------------------------------------
(* Vocabulary of the properties *)

\* the working table has been built in this run
Built == df # NoFrame

\* the load loop has passed its last report
Loaded == pc \in {"load", "render", "done", "stopped", "crashed"} /\ path_idx > Len(report_paths)

\* report k is one the run loads
InScope(k) == report_paths[k].name \in selected_reports

\* report k can be read, is a JSON object and each of its entries has a name
LoadsCleanly(k) ==
    /\ report_paths[k].file.kind = "object"
    /\ \A e \in Range(report_paths[k].file.players) : "name" \in DOMAIN e

\* the non-Total entries of report k, each with its session name
ExpectedRows(k) ==
    LET kept == SelectSeq(report_paths[k].file.players,
                          LAMBDA e : "name" \in DOMAIN e /\ e["name"].s # "Total")
    IN  [j \in 1..Len(kept) |-> ("report_name" :> Str(report_paths[k].name)) @@ kept[j]]

RECURSIVE ExpectedUpTo(_)
\* the expected rows of the cleanly loading reports in scope among the first k
ExpectedUpTo(k) ==
    IF k = 0 THEN <<>>
    ELSE ExpectedUpTo(k - 1)
         \o (IF InScope(k) /\ LoadsCleanly(k) THEN ExpectedRows(k) ELSE <<>>)

RECURSIVE IsSubseq(_, _)
\* a is b with some elements left out
IsSubseq(a, b) ==
    IF a = <<>> THEN TRUE
    ELSE IF b = <<>> THEN FALSE
    ELSE IF Head(a) = Head(b) THEN IsSubseq(Tail(a), Tail(b))
    ELSE IsSubseq(a, Tail(b))

----------------------------------------------------------------------------
(* C1 *)

\* C1: loading is fault-isolated per report. No failing report takes the run
\* out of the load loop (the run crashes only once the table is built), and at
\* every point of the loop the non-Total entries of every report in scope that
\* loaded without error are in all_players, in scan order, wherever the
\* failing reports stand.
C1_FaultIsolated ==
    /\ pc = "crashed" => (Built /\ path_idx > Len(report_paths))
    /\ pc \in {"load", "render", "done", "stopped", "crashed"}
         => IsSubseq(ExpectedUpTo(path_idx - 1), all_players)

\* C1 witness: the loop is over, a report in scope that fails after it has
\* opened stands before a cleanly loading one, whose rows are loaded.
C1_Witness ==
    /\ Loaded
    /\ \E j, k \in 1..Len(report_paths) :
          /\ j < k
          /\ InScope(j) /\ ~LoadsCleanly(j) /\ report_paths[j].file.kind = "notjson"
          /\ InScope(k) /\ LoadsCleanly(k) /\ ExpectedRows(k) # <<>>
          /\ IsSubseq(ExpectedRows(k), all_players)

----------------------------------------------------------------------------
(* C2 *)

\* C2: a report whose load fails yields zero entries: once the loop has passed
\* a report in scope that raised, no record of all_players carries its
\* session name.
C2_FailedReportYieldsNothing ==
    \A k \in 1..Len(report_paths) :
        (/\ pc \in {"load", "render", "done", "stopped", "crashed"}
         /\ k < path_idx
         /\ InScope(k)
         /\ ~LoadsCleanly(k))
        => \A j \in 1..Len(all_players) :
              all_players[j]["report_name"] # Str(report_paths[k].name)

----------------------------------------------------------------------------
(* C3 *)

RECURSIVE VisitedEntries(_)
\* the entries of a players list the loop reaches: those before the first
\* entry without a name
VisitedEntries(players) ==
    IF players = <<>> \/ "name" \notin DOMAIN Head(players) THEN <<>>
    ELSE <<Head(players)>> \o VisitedEntries(Tail(players))

\* the value of counter c in entry e, 0 when absent
Counter(e, c) == IF c \in DOMAIN e /\ IsNum(e[c]) THEN e[c].n ELSE 0

\* the sum of counter c over the non-Total entries the loop reached in the
\* reports in scope
PlayerTotal(c) ==
    LET of(k) == IF InScope(k) /\ report_paths[k].file.kind = "object"
                 THEN SelectSeq(VisitedEntries(report_paths[k].file.players),
                                LAMBDA e : e["name"].s # "Total")
                 ELSE <<>>
    IN  SumSeq([k \in 1..Len(report_paths) |->
                  SumSeq([j \in 1..Len(of(k)) |-> Counter(of(k)[j], c)])])

\* the sum over the rows of the working table of counter c
TableTotal(c) ==
    SumSeq([k \in 1..Len(df.rows) |-> IF IsNum(df.rows[k][c]) THEN df.rows[k][c].n ELSE 0])

\* C3: the Total row is excluded from every downstream view: no record named
\* "Total" is in all_players, in the working table or in a rendered ranking,
\* and the counters of the working table add up to those of the non-Total
\* entries alone.
C3_TotalExcluded ==
    /\ \A k \in 1..Len(all_players) : all_players[k]["name"] # Str("Total")
    /\ \A k \in 1..Len(df.rows) : df.rows[k]["name"] # Str("Total")
    /\ \A v \in 1..Len(rendered) : \A k \in 1..Len(rendered[v].rows) :
          IF rendered[v].widget = "dataframe"
          THEN rendered[v].rows[k]["name"] # Str("Total")
          ELSE rendered[v].rows[k].ranked_name
                  # Spaces(rendered[v].n - (k - 1)) \o "Total"
    /\ Built => \A c \in NumericColumns(df) : TableTotal(c) = PlayerTotal(c)

\* C3 witness: a report with a Total row was loaded in a grouped run whose
\* views are all rendered, one of them non-empty.
C3_Witness ==
    /\ pc = "done"
    /\ selection_mode # "Single Report"
    /\ \E k \in 1..Len(report_paths) :
          /\ InScope(k) /\ LoadsCleanly(k)
          /\ \E e \in Range(report_paths[k].file.players) : e["name"] = Str("Total")
    /\ \E v \in 1..Len(rendered) : rendered[v].rows # <<>>

----------------------------------------------------------------------------
(* C4 *)

RECURSIVE InsertStable(_, _, _)
\* r put into the descending sequence sorted, after every row that is not smaller
InsertStable(sorted, r, column) ==
    IF sorted = <<>> THEN <<r>>
    ELSE IF Head(sorted)[column].n >= r[column].n
         THEN <<Head(sorted)>> \o InsertStable(Tail(sorted), r, column)
         ELSE <<r>> \o sorted

RECURSIVE StableSortDesc(_, _)
StableSortDesc(rows, column) ==
    IF rows = <<>> THEN <<>>
    ELSE InsertStable(StableSortDesc(SubSeq(rows, 1, Len(rows) - 1), column),
                      rows[Len(rows)], column)

\* the reference operator: keep the rows whose value is strictly positive,
\* stable-sort them descending, take the first n
StableTopN(frame, column, n) ==
    LET kept == SelectSeq(frame.rows, LAMBDA r : IsNum(r[column]) /\ r[column].n > 0)
        sorted == StableSortDesc(kept, column)
    IN  [k \in 1..(IF n < Len(sorted) THEN n ELSE Len(sorted)) |->
            [name |-> sorted[k]["name"].s, value |-> sorted[k][column].n]]

\* the (name, value) pairs of a rendered view, in order
ViewPairs(view) ==
    [k \in 1..Len(view.rows) |->
        IF view.widget = "dataframe"
        THEN [name |-> view.rows[k]["name"].s, value |-> view.rows[k]["used"].n]
        ELSE [name |-> CHOOSE nm \in Range(RankNames) \cup Range(StrOrder) :
                         view.rows[k].ranked_name = Spaces(view.n - (k - 1)) \o nm,
              value |-> view.rows[k].value.n]]

\* C4: every rendered ranking equals the reference operator 'keep the rows
\* whose value is strictly positive, stable-sort them descending by that
\* column, take the first N': rows with equal values keep their input order.
C4_RankingIsStableTopN ==
    \A v \in 1..Len(rendered) :
        ViewPairs(rendered[v]) = StableTopN(df, rendered[v].column, rendered[v].n)

\* What the ranking views do guarantee, ties aside: at most N rows, all
\* strictly positive, in non-increasing order, and no positive row left out
\* has a value greater than a returned one.
RankingUpToTies ==
    \A v \in 1..Len(rendered) :
        LET pairs == ViewPairs(rendered[v])
            ref == StableTopN(df, rendered[v].column, rendered[v].n)
        IN  /\ Len(pairs) <= rendered[v].n
            /\ [k \in 1..Len(pairs) |-> pairs[k].value] = [k \in 1..Len(ref) |-> ref[k].value]
            /\ \A k \in 1..Len(pairs) :
                  /\ pairs[k].value > 0
                  /\ \E r \in Range(df.rows) :
                        r["name"] = Str(pairs[k].name) /\ r[rendered[v].column] = Num(pairs[k].value)

----------------------------------------------------------------------------
(* C5 *)

\* the indices of the reports in scope, in scan order
ScopeOrder == SelectSeq([k \in 1..Len(report_paths) |-> k], InScope)

RECURSIVE RowsInOrder(_)
\* all_players as the load loop builds it when it meets the reports in this order
RowsInOrder(order) ==
    IF order = <<>> THEN <<>>
    ELSE LoadOutcome(report_paths[Head(order)].file, report_paths[Head(order)].name).rows
         \o RowsInOrder(Tail(order))

\* the numeric cells of a table, by player name and column
NumericCells(frame) ==
    { <<frame.rows[k]["name"], c, frame.rows[k][c]>> :
        k \in 1..Len(frame.rows), c \in NumericColumns(frame) }

\* the rows of a table as records to load again
AsRecords(frame) == frame.rows

\* the sum of counter c over the records of the player in a list of records
RecordSum(players, name, c) ==
    SumSeq([k \in 1..Len(players) |->
              IF players[k]["name"] = name THEN Counter(players[k], c) ELSE 0])

----------------------------------------------------------------------------
(* C6 *)

\* the run has passed the guards of lines 42-44 and 68-76
PastGuards == pc \in {"render", "done", "crashed"}

\* C6: an empty result halts the page before any view. With zero sessions
\* chosen in Multiple Reports mode the run is stopped with the warning; a run
\* that is past the guards has at least one player record; and a stopped run
\* ends with a blocking message and has rendered no view.
C6_EmptyResultHalts ==
    /\ (selection_mode = "Multiple Reports" /\ selected_reports = {})
          => (pc = "stopped" /\ messages[Len(messages)].level = "warning")
    /\ PastGuards => all_players # <<>>
    /\ rendered # <<>> => all_players # <<>>
    /\ pc = "stopped"
          => /\ rendered = <<>>
             /\ ~Built
             /\ messages # <<>>
             /\ messages[Len(messages)].text
                  \in {"Please select at least one report.", "No valid report data found."}

\* C6 witness: a grouped run with reports in scope, none of which yields a
\* player record, is stopped with the error.
C6_Witness ==
    /\ pc = "stopped"
    /\ selection_mode = "All Reports"
    /\ \E k \in 1..Len(report_paths) : LoadsCleanly(k) /\ report_paths[k].file.players # <<>>
    /\ \E k \in 1..Len(report_paths) : ~LoadsCleanly(k)
    /\ messages[Len(messages)] = [level |-> "error", text |-> "No valid report data found.", path |-> 0]

----------------------------------------------------------------------------
(* C7 *)

\* how many reports the selection resolves to
ReportsInScope == Cardinality({k \in 1..Len(report_paths) : InScope(k)})

\* the working table is the loaded records as they are: one row per record,
\* in load order, every value of the record kept
TableIsAsLoaded ==
    /\ Len(df.rows) = Len(all_players)
    /\ \A k \in 1..Len(all_players) : \A key \in DOMAIN all_players[k] :
          df.rows[k][key] = all_players[k][key]

\* the working table is grouped: one row per player name, rows in name order
TableIsGrouped ==
    /\ {r["name"] : r \in Range(df.rows)} = {p["name"] : p \in Range(all_players)}
    /\ [k \in 1..Len(df.rows) |-> df.rows[k]["name"].s]
          = SortedStrings({p["name"].s : p \in Range(all_players)})
    /\ \A k \in 1..Len(df.rows) :
          df.rows[k]["dps"] = Num(RecordSum(all_players, df.rows[k]["name"], "dps"))

\* C7 as stated: whenever the selection resolves to exactly one session, in
\* any selection mode, the working table is that session's records as-is.
C7_OneSessionIsAsLoaded ==
    (Built /\ ReportsInScope = 1) => TableIsAsLoaded

\* C7 amended: the as-is table applies exactly in Single Report mode; in
\* Multiple Reports and All Reports mode the records are grouped by player
\* name whatever the number of sessions in scope, one included.
C7_ModeDecidesGrouping ==
    Built => IF selection_mode = "Single Report" THEN TableIsAsLoaded ELSE TableIsGrouped

\* C7 witness: Multiple Reports mode with one report in scope whose two rows
\* of one player are merged into one.
C7_Witness ==
    /\ Built
    /\ selection_mode = "Multiple Reports"
    /\ ReportsInScope = 1
    /\ Len(all_players) = 2
    /\ Len(df.rows) = 1

----------------------------------------------------------------------------
(* C8 *)

\* C8: every numeric counter is zero, never null, in the working table when
\* it is absent from a source record, in every selection mode.
C8_CountersNeverNull ==
    Built => \A k \in 1..Len(df.rows) : \A c \in NumericColumns(df) :
                df.rows[k][c] # NaN

----------------------------------------------------------------------------
(* C9 *)

\* C9: with a non-empty working table no view call produces an error: the
\* run is never ended by a view, and a finished run has rendered every call.
C9_ViewsNeverFail ==
    Built => /\ pc # "crashed"
             /\ pc = "done" => Len(rendered) = Len(ViewCalls)

----------------------------------------------------------------------------
(* C10 *)

\* The average-DPS view of the overall statistics: for each player name, the
\* mean of "dps" over the records of the raw concatenation, as the pair
\* <<sum, count>> of the present values.
AvgDpsView(players) ==
    [name \in {p["name"] : p \in Range(players)} |->
        LET mine == SelectSeq(players, LAMBDA p : p["name"] = name /\ "dps" \in DOMAIN p)
        IN  <<SumSeq([k \in 1..Len(mine) |-> mine[k]["dps"].n]), Len(mine)>>]

\* two <<sum, count>> pairs are the same mean
SameMean(a, b) == a[1] * b[2] = b[1] * a[2] /\ (a[2] = 0 <=> b[2] = 0)

\* the player records of every session on disk
AllSessionsPlayers == RowsInOrder([k \in 1..Len(report_paths) |-> k])

\* C10: the average-DPS view does not depend on the session selection: it is
\* the per-player mean of DPS over the records of every session on disk.
C10_AverageIgnoresSelection ==
    PastGuards =>
        LET shown == AvgDpsView(all_players)
            full == AvgDpsView(AllSessionsPlayers)
        IN  /\ DOMAIN shown = DOMAIN full
            /\ \A name \in DOMAIN shown : SameMean(shown[name], full[name])

=============================================================================
